---------------------------- MODULE Spec2Model ----------------------------
(***************************************************************************)
(* Model of networkx/generators/classic.py: the classic graph generators.  *)
(*                                                                         *)
(* A graph object is a record                                              *)
(*    [tag, id, directed, multi, nodes, adj, block]                        *)
(* id is the identity of the Python object, nodes the node set, adj the    *)
(* adjacency as a function from ordered node pairs to the number of edges  *)
(* stored for the pair (an undirected graph stores u-v under <<u,v>> and   *)
(* <<v,u>>, a self-loop under <<u,u>> alone), block the node attribute     *)
(* 'block'.  The caller owns one container, cu, which it may pass as       *)
(* create_using; every call is one action, from the caller being idle to   *)
(* the call having returned or raised.  Under SpecTree a call of           *)
(* full_rary_tree runs the loop of _tree_edges one step at a time, frame    *)
(* holding the locals of the suspended call.                               *)
(*                                                                         *)
(* Not modelled: G.name, which no generator reads; arguments that are not  *)
(* integers where the code expects integers (turan_graph's isinstance      *)
(* test); grid_graph, hypercube_graph, balanced_tree, null_graph and       *)
(* trivial_graph.  Explicit node lists hold distinct integers.  G.edges()  *)
(* lists the edges in sorted order, one order among those a container may  *)
(* produce.  Record fields are written in the order TLC keeps them.        *)
(***************************************************************************)
EXTENDS Integers, Sequences, FiniteSets

VARIABLES cu, res, pc, frame

vars == <<cu, res, pc, frame>>

(***************************************************************************)
(* Bounds of the model.                                                    *)
(***************************************************************************)
MaxN == 3
MaxOffset == 2
MaxOffsets == 1
MaxBranch == 2
MaxGen == 2
MaxBlocks == 3
MaxBlockSize == 3
MaxTuranN == 12
MaxTreeBranch == 3
MaxTreeN == 5

CallerId == 1
FreshId == 2

NoneVal == [tag |-> "None"]

IsNone(x) == x.tag = "None"

(***************************************************************************)
(* Python sequences: range(a, b), pairwise, accumulate, slices.            *)
(***************************************************************************)
Range(a, b) == [i \in 1..(b - a) |-> a + i - 1]

pairwise(s) == [i \in 1..(Len(s) - 1) |-> <<s[i], s[i + 1]>>]

RECURSIVE accumulate(_)
accumulate(s) ==
    IF Len(s) <= 1 THEN s
    ELSE LET p == accumulate(SubSeq(s, 1, Len(s) - 1))
         IN  Append(p, p[Len(p)] + s[Len(s)])

SeqSet(s) == {s[i] : i \in 1..Len(s)}

\* the concatenation of the sequences of ss, by halves
RECURSIVE Concat(_)
Concat(ss) ==
    IF Len(ss) = 0 THEN <<>>
    ELSE IF Len(ss) = 1 THEN ss[1]
    ELSE LET h == Len(ss) \div 2
         IN  Concat(SubSeq(ss, 1, h)) \o Concat(SubSeq(ss, h + 1, Len(ss)))

\* itertools.product(a, b): a's elements outermost
product(a, b) == Concat([i \in 1..Len(a) |-> [j \in 1..Len(b) |-> <<a[i], b[j]>>]])

\* itertools.combinations(s, 2)
combinations2(s) ==
    Concat([i \in 1..Len(s) |-> [j \in 1..(Len(s) - i) |-> <<s[i], s[i + j]>>]])

\* itertools.permutations(s, 2)
permutations2(s) ==
    Concat([i \in 1..Len(s) |->
              [j \in 1..(Len(s) - 1) |-> <<s[i], s[IF j < i THEN j ELSE j + 1]>>]])

(***************************************************************************)
(* The graph container: nx.Graph(), nx.DiGraph(), nx.MultiGraph(),         *)
(* nx.MultiDiGraph() and the methods the generators call.                  *)
(***************************************************************************)
NewGraph(id, directed, multi) ==
    [tag |-> "Graph", id |-> id, directed |-> directed, multi |-> multi,
     nodes |-> {}, adj |-> <<>>, block |-> <<>>]

clear(G) == [G EXCEPT !.nodes = {}, !.adj = <<>>, !.block = <<>>]

add_nodes_from(G, s) == [G EXCEPT !.nodes = @ \cup SeqSet(s)]

add_nodes_from_block(G, s, b) ==
    [G EXCEPT !.nodes = @ \cup SeqSet(s),
              !.block = [v \in (DOMAIN @) \cup SeqSet(s) |->
                            IF v \in SeqSet(s) THEN b ELSE @[v]]]

add_edge(G, u, v) ==
    LET keys == IF G.directed THEN {<<u, v>>} ELSE {<<u, v>>, <<v, u>>}
        old(e) == IF e \in DOMAIN G.adj THEN G.adj[e] ELSE 0
    IN  [G EXCEPT !.nodes = @ \cup {u, v},
                  !.adj = [e \in (DOMAIN @) \cup keys |->
                              IF e \in keys
                              THEN (IF G.multi THEN old(e) + 1 ELSE 1)
                              ELSE @[e]]]

\* add_edge for every pair of es in turn: a simple graph keeps one edge per
\* pair, a multigraph one more per occurrence
add_edges_from(G, es) ==
    LET keys == {es[k] : k \in 1..Len(es)}
                \cup (IF G.directed THEN {}
                      ELSE {<<es[k][2], es[k][1]>> : k \in 1..Len(es)})
        old(e) == IF e \in DOMAIN G.adj THEN G.adj[e] ELSE 0
        added(e) == Cardinality({k \in 1..Len(es) :
                        \/ es[k] = e
                        \/ ~G.directed /\ es[k] = <<e[2], e[1]>>})
    IN  [G EXCEPT !.nodes = @ \cup {es[k][1] : k \in 1..Len(es)}
                              \cup {es[k][2] : k \in 1..Len(es)},
                  !.adj = [e \in (DOMAIN @) \cup keys |->
                              IF e \in keys
                              THEN (IF G.multi THEN old(e) + added(e) ELSE 1)
                              ELSE @[e]]]

\* len(G)
len(G) == Cardinality(G.nodes)

\* the sum of f over S, f a function to the naturals
SumOver(f, S) == Cardinality(UNION {{e} \X (1..f[e]) : e \in S})

Loops(G) == {e \in DOMAIN G.adj : e[1] = e[2]}

\* G.number_of_edges()
number_of_edges(G) ==
    IF G.directed THEN SumOver(G.adj, DOMAIN G.adj)
    ELSE SumOver(G.adj, Loops(G))
         + (SumOver(G.adj, (DOMAIN G.adj) \ Loops(G)) \div 2)

\* G.degree(v) of an undirected graph: a self-loop counts twice
degree(G, v) ==
    SumOver(G.adj, {e \in DOMAIN G.adj : e[1] = v})
    + SumOver(G.adj, {e \in DOMAIN G.adj : e = <<v, v>>})

adjacent(G, u, v) == <<u, v>> \in DOMAIN G.adj

(***************************************************************************)
(* NodeSpec arguments and the nodes_or_number decorator.                   *)
(***************************************************************************)
Count(n) == [tag |-> "int", val |-> n]

Explicit(s) == [tag |-> "seq", val |-> s]

isint(x) == x.tag = "int"

\* (n, nodes): the argument as given and the node list
nodes_or_number(x) ==
    IF isint(x) THEN <<x, Range(0, x.val)>> ELSE <<x, x.val>>

(***************************************************************************)
(* Outcome of a call: raised is "none" or the exception, G the returned    *)
(* graph, c the state the create_using object is left in.                  *)
(***************************************************************************)
Return(G, c) ==
    [raised |-> "none", G |-> G,
     c |-> IF IsNone(c) THEN c ELSE IF c.id = G.id THEN G ELSE c]

Raise(err, c) == [raised |-> err, G |-> NoneVal, c |-> c]


\* o followed by the mutation F of the graph it returned
Bind(o, F(_)) == IF o.raised # "none" THEN o ELSE Return(F(o.G), o.c)

(***************************************************************************)
(* empty_graph(n, create_using)                                            *)
(***************************************************************************)
\* empty_graph without the G.clear() of a container passed in
empty_graph_unclear(n, create_using) ==
    LET G0 == IF IsNone(create_using)
              THEN NewGraph(FreshId, FALSE, FALSE)
              ELSE create_using
        nodes == nodes_or_number(n)[2]
    IN  Return(add_nodes_from(G0, nodes), create_using)

empty_graph(n, create_using) ==
    LET G0 == IF IsNone(create_using)
              THEN NewGraph(FreshId, FALSE, FALSE)
              ELSE clear(create_using)
        nodes == nodes_or_number(n)[2]
    IN  Return(add_nodes_from(G0, nodes), create_using)

(***************************************************************************)
(* _tree_edges(n, r) and full_rary_tree(r, n, create_using)                *)
(***************************************************************************)
Min(a, b) == IF a < b THEN a ELSE b

Max(a, b) == IF a > b THEN a ELSE b

\* the while loop: parents is the queue, nxt the next value of iter(range(n))
RECURSIVE TreeLoop(_, _, _, _, _)
TreeLoop(parents, nxt, n, r, edges) ==
    IF Len(parents) = 0 THEN edges
    ELSE LET source == Head(parents)
             k == Max(0, Min(r, n - nxt))
             targets == Range(nxt, nxt + k)
         IN  TreeLoop(Tail(parents) \o targets, nxt + k, n, r,
                      edges \o [i \in 1..k |-> <<source, targets[i]>>])

\* stop: the first next(nodes) found range(n) empty
tree_edges(n, r) ==
    IF n <= 0 THEN [stop |-> TRUE, edges |-> <<>>]
    ELSE [stop |-> FALSE, edges |-> TreeLoop(<<0>>, 1, n, r, <<>>)]

\* generator_stop: whether the interpreter turns a StopIteration that leaves
\* a generator body into a RuntimeError (PEP 479) or ends the generator
full_rary_tree(r, n, create_using, generator_stop) ==
    LET o == empty_graph(Count(n), create_using)
        t == tree_edges(n, r)
    IN  IF t.stop /\ generator_stop THEN Raise("RuntimeError", o.c)
        ELSE Bind(o, LAMBDA G : add_edges_from(G, t.edges))

(***************************************************************************)
(* complete_graph(n, create_using)                                         *)
(***************************************************************************)
\* complete_graph taking itertools.combinations for a directed container too
complete_graph_combinations(n, create_using) ==
    LET nodes == nodes_or_number(n)[2]
        o == empty_graph(n, create_using)
    IN  IF Len(nodes) > 1
        THEN Bind(o, LAMBDA G : add_edges_from(G, combinations2(nodes)))
        ELSE o

complete_graph(n, create_using) ==
    LET nodes == nodes_or_number(n)[2]
        o == empty_graph(n, create_using)
    IN  IF Len(nodes) > 1
        THEN Bind(o, LAMBDA G : add_edges_from(G,
                        IF G.directed THEN permutations2(nodes)
                        ELSE combinations2(nodes)))
        ELSE o

(***************************************************************************)
(* barbell_graph(m1, m2, create_using)                                     *)
(***************************************************************************)
\* RightBarbell one node short
RightBarbellShort(m1, m2) == combinations2(Range(m1 + m2, 2 * m1 + m2 - 1))

\* (u, v) for u in range(m1 + m2, 2 * m1 + m2) for v in range(u + 1, 2 * m1 + m2)
RightBarbell(m1, m2) == combinations2(Range(m1 + m2, 2 * m1 + m2))

barbell_graph(m1, m2, create_using) ==
    IF ~IsNone(create_using) /\ create_using.directed
    THEN Raise("NetworkXError", create_using)
    ELSE IF m1 < 2 THEN Raise("NetworkXError", create_using)
    ELSE IF m2 < 0 THEN Raise("NetworkXError", create_using)
    ELSE Bind(complete_graph(Count(m1), create_using), LAMBDA G :
           LET G1 == add_nodes_from(G, Range(m1, m1 + m2 - 1))
               G2 == IF m2 > 1
                     THEN add_edges_from(G1, pairwise(Range(m1, m1 + m2)))
                     ELSE G1
               G3 == add_edges_from(G2, RightBarbell(m1, m2))
               G4 == add_edge(G3, m1 - 1, m1)
           IN  IF m2 > 0 THEN add_edge(G4, m1 + m2 - 1, m1 + m2) ELSE G4)

(***************************************************************************)
(* ladder_graph(n, create_using), circular_ladder_graph(n, create_using)   *)
(***************************************************************************)
ladder_graph(n, create_using) ==
    IF ~IsNone(create_using) /\ create_using.directed
    THEN Raise("NetworkXError", create_using)
    ELSE Bind(empty_graph(Count(2 * n), create_using), LAMBDA G :
           LET G1 == add_edges_from(G, pairwise(Range(0, n)))
               G2 == add_edges_from(G1, pairwise(Range(n, 2 * n)))
           IN  add_edges_from(G2, [v \in 1..n |-> <<v - 1, v - 1 + n>>]))

circular_ladder_graph(n, create_using) ==
    Bind(ladder_graph(n, create_using), LAMBDA G :
           add_edge(add_edge(G, 0, n - 1), n, 2 * n - 1))

(***************************************************************************)
(* circulant_graph(n, offsets, create_using)                               *)
(***************************************************************************)
\* circulant_graph with the indices not taken modulo n
circulant_graph_nomod(n, offsets, create_using) ==
    Bind(empty_graph(Count(n), create_using), LAMBDA G :
           add_edges_from(G,
              Concat([i \in 1..n |->
                 Concat([k \in 1..Len(offsets) |->
                    << <<i - 1, i - 1 - offsets[k]>>,
                       <<i - 1, i - 1 + offsets[k]>> >>])])))

circulant_graph(n, offsets, create_using) ==
    Bind(empty_graph(Count(n), create_using), LAMBDA G :
           add_edges_from(G,
              Concat([i \in 1..n |->
                 Concat([k \in 1..Len(offsets) |->
                    << <<i - 1, (i - 1 - offsets[k]) % n>>,
                       <<i - 1, (i - 1 + offsets[k]) % n>> >>])])))

(***************************************************************************)
(* cycle_graph(n, create_using), path_graph(n, create_using)               *)
(***************************************************************************)
cycle_graph(n, create_using) ==
    LET nodes == nodes_or_number(n)[2]
        o == empty_graph(Explicit(nodes), create_using)
    IN  IF Len(nodes) = 0 THEN Raise("IndexError", o.c)
        ELSE Bind(o, LAMBDA G :
               add_edge(add_edges_from(G, pairwise(nodes)),
                        nodes[Len(nodes)], nodes[1]))

path_graph(n, create_using) ==
    LET nodes == nodes_or_number(n)[2]
    IN  Bind(empty_graph(Explicit(nodes), create_using), LAMBDA G :
               add_edges_from(G, pairwise(nodes)))

(***************************************************************************)
(* dorogovtsev_goltsev_mendes_graph(n, create_using)                       *)
(***************************************************************************)
PairLess(a, b) == a[1] < b[1] \/ (a[1] = b[1] /\ a[2] < b[2])

RECURSIVE SortPairs(_)
SortPairs(S) ==
    IF S = {} THEN <<>>
    ELSE LET m == CHOOSE a \in S : \A b \in S \ {a} : PairLess(a, b)
         IN  <<m>> \o SortPairs(S \ {m})

\* list(G.edges()) of an undirected simple graph: every edge once
edges(G) == SortPairs({e \in DOMAIN G.adj : e[1] <= e[2]})

\* DgmEdges with new_node never incremented
RECURSIVE DgmEdgesSameNode(_, _, _)
DgmEdgesSameNode(G, last_generation_edges, new_node) ==
    IF Len(last_generation_edges) = 0 THEN G
    ELSE LET e == Head(last_generation_edges)
         IN  DgmEdgesSameNode(
                 add_edge(add_edge(G, new_node, e[1]), new_node, e[2]),
                 Tail(last_generation_edges), new_node)

\* the loop over last_generation_edges
RECURSIVE DgmEdges(_, _, _)
DgmEdges(G, last_generation_edges, new_node) ==
    IF Len(last_generation_edges) = 0 THEN G
    ELSE LET e == Head(last_generation_edges)
         IN  DgmEdges(add_edge(add_edge(G, new_node, e[1]), new_node, e[2]),
                      Tail(last_generation_edges), new_node + 1)

\* the loop over the generations i..n
RECURSIVE DgmGenerations(_, _, _, _)
DgmGenerations(G, i, n, new_node) ==
    IF i > n THEN G
    ELSE LET last_generation_edges == edges(G)
         IN  DgmGenerations(DgmEdges(G, last_generation_edges, new_node),
                            i + 1, n, new_node + Len(last_generation_edges))

dorogovtsev_goltsev_mendes_graph(n, create_using) ==
    IF ~IsNone(create_using) /\ create_using.directed
    THEN Raise("NetworkXError", create_using)
    ELSE IF ~IsNone(create_using) /\ create_using.multi
    THEN Raise("NetworkXError", create_using)
    ELSE Bind(empty_graph(Count(0), create_using), LAMBDA G :
           LET G1 == add_edge(G, 0, 1)
           IN  IF n = 0 THEN G1 ELSE DgmGenerations(G1, 1, n, 2))

(***************************************************************************)
(* grid_2d_graph(m, n, periodic, create_using)                             *)
(***************************************************************************)
Swap(es) == [k \in 1..Len(es) |-> <<es[k][2], es[k][1]>>]

\* ((i, j), (pi, j)) for pi, i in pairwise(rows) for j in columns
GridRowEdges(rows, columns) ==
    Concat([p \in 1..Len(pairwise(rows)) |->
              [k \in 1..Len(columns) |->
                  << <<pairwise(rows)[p][2], columns[k]>>,
                     <<pairwise(rows)[p][1], columns[k]>> >>]])

\* GridColEdges with the pairs taken from rows
GridColEdgesOfRows(rows, columns) ==
    Concat([k \in 1..Len(rows) |->
              [p \in 1..Len(pairwise(rows)) |->
                  << <<rows[k], pairwise(rows)[p][2]>>,
                     <<rows[k], pairwise(rows)[p][1]>> >>]])

\* ((i, j), (i, pj)) for i in rows for pj, j in pairwise(columns)
GridColEdges(rows, columns) ==
    Concat([k \in 1..Len(rows) |->
              [p \in 1..Len(pairwise(columns)) |->
                  << <<rows[k], pairwise(columns)[p][2]>>,
                     <<rows[k], pairwise(columns)[p][1]>> >>]])

grid_2d_graph(m, n, periodic, create_using) ==
    LET rows == nodes_or_number(m)[2]
        columns == nodes_or_number(n)[2]
        rowEdges == GridRowEdges(rows, columns)
        colEdges == GridColEdges(rows, columns)
        colWrap == [k \in 1..Len(rows) |->
                       << <<rows[k], columns[1]>>,
                          <<rows[k], columns[Len(columns)]>> >>]
        rowWrap == [k \in 1..Len(columns) |->
                       << <<rows[1], columns[k]>>,
                          <<rows[Len(rows)], columns[k]>> >>]
    IN  Bind(empty_graph(Count(0), create_using), LAMBDA G :
           LET G1 == add_nodes_from(G, product(rows, columns))
               G2 == add_edges_from(add_edges_from(G1, rowEdges), colEdges)
               G3 == IF G2.directed
                     THEN add_edges_from(add_edges_from(G2, Swap(rowEdges)),
                                         Swap(colEdges))
                     ELSE G2
               G4 == IF periodic /\ Len(columns) > 2
                     THEN LET H == add_edges_from(G3, colWrap)
                          IN  IF H.directed
                              THEN add_edges_from(H, Swap(colWrap)) ELSE H
                     ELSE G3
           IN  IF periodic /\ Len(rows) > 2
               THEN LET H == add_edges_from(G4, rowWrap)
                    IN  IF H.directed
                        THEN add_edges_from(H, Swap(rowWrap)) ELSE H
               ELSE G4)

(***************************************************************************)
(* star_graph(n, create_using), wheel_graph(n, create_using)               *)
(***************************************************************************)
\* star_graph with the node appended last as the center
star_graph_center_last(n, create_using) ==
    LET nodes == IF isint(n) THEN Append(nodes_or_number(n)[2], n.val)
                 ELSE nodes_or_number(n)[2]
    IN  IF Len(nodes) = 0 THEN Raise("IndexError", create_using)
        ELSE LET first == nodes[Len(nodes)]
                 o == empty_graph(Explicit(nodes), create_using)
             IN  IF o.G.directed THEN Raise("NetworkXError", o.c)
                 ELSE Bind(o, LAMBDA G : add_edges_from(G,
                         [k \in 1..(Len(nodes) - 1) |-> <<first, nodes[k]>>]))

star_graph(n, create_using) ==
    LET nodes == IF isint(n) THEN Append(nodes_or_number(n)[2], n.val)
                 ELSE nodes_or_number(n)[2]
    IN  IF Len(nodes) = 0 THEN Raise("IndexError", create_using)
        ELSE LET first == nodes[1]
                 o == empty_graph(Explicit(nodes), create_using)
             IN  IF o.G.directed THEN Raise("NetworkXError", o.c)
                 ELSE Bind(o, LAMBDA G : add_edges_from(G,
                         [k \in 1..(Len(nodes) - 1) |-> <<first, nodes[k + 1]>>]))

wheel_graph(n, create_using) ==
    LET nodes == nodes_or_number(n)[2]
    IN  IF isint(n) /\ n.val = 0 THEN empty_graph(Count(0), create_using)
        ELSE Bind(star_graph(Explicit(nodes), create_using), LAMBDA G :
               IF len(G) > 2
               THEN add_edge(add_edges_from(G, pairwise(Tail(nodes))),
                             nodes[Len(nodes)], nodes[2])
               ELSE G)

(***************************************************************************)
(* lollipop_graph(m, n, create_using)                                      *)
(***************************************************************************)
lollipop_graph(m, n, create_using) ==
    LET m_nodes == nodes_or_number(m)[2]
        M == Len(m_nodes)
        N == Len(nodes_or_number(n)[2])
        n_nodes == IF isint(m)
                   THEN [k \in 1..N |-> M + nodes_or_number(n)[2][k]]
                   ELSE nodes_or_number(n)[2]
    IN  IF ~IsNone(create_using) /\ create_using.directed
        THEN Raise("NetworkXError", create_using)
        ELSE IF M < 2 THEN Raise("NetworkXError", create_using)
        ELSE IF N < 0 THEN Raise("NetworkXError", create_using)
        ELSE Bind(complete_graph(Explicit(m_nodes), create_using), LAMBDA G :
               LET G1 == add_nodes_from(G, n_nodes)
                   G2 == IF N > 1 THEN add_edges_from(G1, pairwise(n_nodes))
                         ELSE G1
               IN  IF M > 0 /\ N > 0
                   THEN add_edge(G2, m_nodes[M], n_nodes[1])
                   ELSE G2)

(***************************************************************************)
(* complete_multipartite_graph(block_sizes...), turan_graph(n, r)          *)
(***************************************************************************)
\* Blocks with the running totals started at the first size, not at 0
BlocksNoZero(block_sizes) ==
    IF \A k \in 1..Len(block_sizes) : isint(block_sizes[k])
    THEN LET extents == pairwise(accumulate(
                 [k \in 1..Len(block_sizes) |-> block_sizes[k].val]))
         IN  [k \in 1..Len(extents) |->
                 Explicit(Range(extents[k][1], extents[k][2]))]
    ELSE block_sizes

\* blocks as set up by the first try statement
Blocks(block_sizes) ==
    IF \A k \in 1..Len(block_sizes) : isint(block_sizes[k])
    THEN LET extents == pairwise(accumulate(
                 <<0>> \o [k \in 1..Len(block_sizes) |-> block_sizes[k].val]))
         IN  [k \in 1..Len(extents) |->
                 Explicit(Range(extents[k][1], extents[k][2]))]
    ELSE block_sizes

RECURSIVE AddBlocks(_, _, _)
AddBlocks(G, blocks, i) ==
    IF i > Len(blocks) THEN G
    ELSE AddBlocks(add_nodes_from_block(G, blocks[i].val, i - 1), blocks, i + 1)

\* G.add_edges_from(itertools.product(block1, block2)) for every pair of
\* blocks in turn: the same edges as one add_edges_from of them all
AddBlockEdges(G, pairs) ==
    add_edges_from(G, Concat([p \in 1..Len(pairs) |->
                                product(pairs[p][1].val, pairs[p][2].val)]))

complete_multipartite_graph(block_sizes) ==
    LET G == NewGraph(FreshId, FALSE, FALSE)
        blocks == Blocks(block_sizes)
    IN  IF Len(block_sizes) = 0 THEN Return(G, NoneVal)
        ELSE IF \E k \in 1..Len(blocks) : isint(blocks[k])
        THEN Raise("NetworkXError", NoneVal)
        ELSE Return(AddBlockEdges(AddBlocks(G, blocks, 1),
                                  combinations2(blocks)), NoneVal)

\* turan_graph with the two multiplicities exchanged
turan_graph_swapped(n, r) ==
    IF ~(1 <= r /\ r <= n) THEN Raise("NetworkXError", NoneVal)
    ELSE LET partitions == [k \in 1..(n % r) |-> Count(n \div r)]
                           \o [k \in 1..(r - (n % r)) |-> Count((n \div r) + 1)]
         IN  complete_multipartite_graph(partitions)

turan_graph(n, r) ==
    IF ~(1 <= r /\ r <= n) THEN Raise("NetworkXError", NoneVal)
    ELSE LET partitions == [k \in 1..(r - (n % r)) |-> Count(n \div r)]
                           \o [k \in 1..(n % r) |-> Count((n \div r) + 1)]
         IN  complete_multipartite_graph(partitions)

(***************************************************************************)
(* The caller.  cu is what the caller passes as create_using: None or a    *)
(* container it owns.  res is the outcome of the call just made.           *)
(***************************************************************************)
NoRes == [op |-> "none"]

\* the k-th explicit node list: k distinct identifiers, not in sorted order
NodeList(k) == [i \in 1..k |-> 20 - 2 * i]

NodeSpec(k, explicit) == IF explicit THEN Explicit(NodeList(k)) ELSE Count(k)

OffsetLists ==
    UNION {[1..k -> 0..MaxOffset] : k \in 0..MaxOffsets}

Called(op, args, o) ==
    /\ pc = "idle"
    /\ pc' = "done"
    /\ res' = [op |-> op, args |-> args, pre |-> cu,
               raised |-> o.raised, G |-> o.G]
    /\ cu' = o.c
    /\ UNCHANGED frame

\* a call of a generator that has no create_using parameter
CalledFresh(op, args, o) ==
    /\ pc = "idle"
    /\ pc' = "done"
    /\ res' = [op |-> op, args |-> args, pre |-> cu,
               raised |-> o.raised, G |-> o.G]
    /\ UNCHANGED <<cu, frame>>

Init ==
    /\ cu = NoneVal
    /\ res = NoRes
    /\ pc = "idle"
    /\ frame = NoneVal

\* the caller constructs nx.Graph(), nx.DiGraph(), nx.MultiGraph() or
\* nx.MultiDiGraph() to pass as create_using
NewContainer ==
    /\ pc = "idle"
    /\ \E directed \in BOOLEAN, multi \in BOOLEAN :
          cu' = NewGraph(CallerId, directed, multi)
    /\ UNCHANGED <<res, pc, frame>>

\* the caller passes create_using = None from now on
DropContainer ==
    /\ pc = "idle"
    /\ ~IsNone(cu)
    /\ cu' = NoneVal
    /\ UNCHANGED <<res, pc, frame>>

\* the caller is done with the outcome of the call
Continue ==
    /\ pc = "done"
    /\ pc' = "idle"
    /\ res' = NoRes
    /\ UNCHANGED <<cu, frame>>

CallEmptyGraph ==
    \E k \in 0..MaxN, explicit \in BOOLEAN :
        Called("empty_graph", [n |-> NodeSpec(k, explicit)],
               empty_graph(NodeSpec(k, explicit), cu))

CallFullRaryTree ==
    \E r \in 0..MaxBranch, n \in 0..MaxN, generator_stop \in BOOLEAN :
        Called("full_rary_tree", [r |-> r, n |-> n],
               full_rary_tree(r, n, cu, generator_stop))

CallBarbellGraph ==
    \E m1 \in 0..MaxN, m2 \in -1..MaxN :
        Called("barbell_graph", [m1 |-> m1, m2 |-> m2],
               barbell_graph(m1, m2, cu))

CallCompleteGraph ==
    \E k \in 0..MaxN, explicit \in BOOLEAN :
        Called("complete_graph", [n |-> NodeSpec(k, explicit)],
               complete_graph(NodeSpec(k, explicit), cu))

CallLadderGraph ==
    \E n \in 0..MaxN :
        Called("ladder_graph", [n |-> n], ladder_graph(n, cu))

CallCircularLadderGraph ==
    \E n \in 0..MaxN :
        Called("circular_ladder_graph", [n |-> n],
               circular_ladder_graph(n, cu))

CallCirculantGraph ==
    \E n \in 0..MaxN, offsets \in OffsetLists :
        Called("circulant_graph", [n |-> n, offsets |-> offsets],
               circulant_graph(n, offsets, cu))

CallCycleGraph ==
    \E k \in 0..MaxN, explicit \in BOOLEAN :
        Called("cycle_graph", [n |-> NodeSpec(k, explicit)],
               cycle_graph(NodeSpec(k, explicit), cu))

CallPathGraph ==
    \E k \in 0..MaxN, explicit \in BOOLEAN :
        Called("path_graph", [n |-> NodeSpec(k, explicit)],
               path_graph(NodeSpec(k, explicit), cu))

CallDgmGraph ==
    \E n \in 0..MaxGen :
        Called("dorogovtsev_goltsev_mendes_graph", [n |-> n],
               dorogovtsev_goltsev_mendes_graph(n, cu))

CallStarGraph ==
    \E k \in 0..MaxN, explicit \in BOOLEAN :
        Called("star_graph", [n |-> NodeSpec(k, explicit)],
               star_graph(NodeSpec(k, explicit), cu))

CallWheelGraph ==
    \E k \in 0..MaxN, explicit \in BOOLEAN :
        Called("wheel_graph", [n |-> NodeSpec(k, explicit)],
               wheel_graph(NodeSpec(k, explicit), cu))

\* a node container for the path, sharing no identifier with NodeList or
\* with a range
StickList(k) == [i \in 1..k |-> 21 - 2 * i]

\* m is an integer, a container of identifiers ("seq") or range(km); n is an
\* integer or a container of identifiers that m does not hold
CallLollipopGraph ==
    \E km \in 0..MaxN, kn \in 0..MaxN,
       m_kind \in {"int", "seq", "range"}, en \in BOOLEAN :
        LET m == IF m_kind = "range" THEN Explicit(Range(0, km))
                 ELSE NodeSpec(km, m_kind = "seq")
            n == IF en THEN Explicit(StickList(kn)) ELSE Count(kn)
        IN  Called("lollipop_graph", [m |-> m, n |-> n],
                   lollipop_graph(m, n, cu))

CallGrid2dGraph ==
    \E km \in 0..MaxN, em \in BOOLEAN, kn \in 0..MaxN, en \in BOOLEAN,
       periodic \in BOOLEAN :
        Called("grid_2d_graph",
               [m |-> NodeSpec(km, em), n |-> NodeSpec(kn, en),
                periodic |-> periodic],
               grid_2d_graph(NodeSpec(km, em), NodeSpec(kn, en), periodic, cu))

CallTuranGraph ==
    \E n \in 0..MaxTuranN, r \in 0..MaxTuranN :
        CalledFresh("turan_graph", [n |-> n, r |-> r], turan_graph(n, r))

\* the k-th block given as an iterable of s nodes
BlockList(k, s) == [i \in 1..s |-> 10 * k + i]

\* block sizes all integers ("int"), all iterables ("seq"), or a first
\* integer followed by iterables ("mixed")
BlockSizes(sizes, kind) ==
    [k \in 1..Len(sizes) |->
        IF kind = "int" \/ (kind = "mixed" /\ k = 1) THEN Count(sizes[k])
        ELSE Explicit(BlockList(k, sizes[k]))]

CallCompleteMultipartiteGraph ==
    \E nb \in 0..MaxBlocks, kind \in {"int", "seq", "mixed"} :
        \E sizes \in [1..nb -> 0..MaxBlockSize] :
            CalledFresh("complete_multipartite_graph",
                        [block_sizes |-> BlockSizes(sizes, kind)],
                        complete_multipartite_graph(BlockSizes(sizes, kind)))

Next ==
    \/ NewContainer
    \/ DropContainer
    \/ Continue
    \/ CallEmptyGraph
    \/ CallCycleGraph
    \/ CallFullRaryTree
    \/ CallBarbellGraph
    \/ CallCompleteGraph
    \/ CallLadderGraph
    \/ CallCircularLadderGraph
    \/ CallCirculantGraph
    \/ CallPathGraph
    \/ CallDgmGraph
    \/ CallStarGraph
    \/ CallWheelGraph
    \/ CallLollipopGraph

Spec == Init /\ [][Next]_vars

\* grid_2d_graph, whose nodes are pairs, with a caller that may pass a
\* container
NextGrid ==
    \/ NewContainer
    \/ DropContainer
    \/ Continue
    \/ CallGrid2dGraph

SpecGrid == Init /\ [][NextGrid]_vars

\* the generators that take no create_using, called by a caller that owns
\* no container
NextFresh ==
    \/ Continue
    \/ CallTuranGraph
    \/ CallCompleteMultipartiteGraph

SpecFresh == Init /\ [][NextFresh]_vars

(***************************************************************************)
(* full_rary_tree(r, n, create_using) step by step: G.add_edges_from       *)
(* draws the edges from the generator _tree_edges(n, r) one at a time.     *)
(* pc is "while" at the test of `while parents`, "for" at the head of      *)
(* `for i in range(r)`.                                                    *)
(***************************************************************************)
\* the object G is the caller's container when create_using was given
Shared(G) == IF G.id = CallerId THEN G ELSE cu

\* the call up to the first test of the while loop: empty_graph, then
\* nodes = iter(range(n)) and parents = [next(nodes)]
StartFullRaryTree ==
    \E r \in 0..MaxTreeBranch, n \in 0..MaxTreeN, generator_stop \in BOOLEAN :
        LET o == empty_graph(Count(n), cu)
            args == [r |-> r, n |-> n]
        IN  /\ pc = "idle"
            /\ cu' = o.c
            /\ IF n <= 0
               THEN /\ pc' = "done"
                    /\ res' = [op |-> "full_rary_tree", args |-> args,
                               pre |-> cu,
                               raised |-> IF generator_stop
                                          THEN "RuntimeError" ELSE "none",
                               G |-> IF generator_stop THEN NoneVal ELSE o.G]
                    /\ UNCHANGED frame
               ELSE /\ pc' = "while"
                    /\ frame' = [args |-> args, pre |-> cu, G |-> o.G,
                                 parents |-> <<0>>, nxt |-> 1,
                                 source |-> 0, i |-> 0]
                    /\ UNCHANGED res

\* parents is empty: the generator ends and full_rary_tree returns G
TreeWhileExit ==
    /\ pc = "while"
    /\ Len(frame.parents) = 0
    /\ pc' = "done"
    /\ res' = [op |-> "full_rary_tree", args |-> frame.args,
               pre |-> frame.pre, raised |-> "none", G |-> frame.G]
    /\ frame' = NoneVal
    /\ UNCHANGED cu

\* source = parents.pop(0)
TreePop ==
    /\ pc = "while"
    /\ Len(frame.parents) > 0
    /\ pc' = "for"
    /\ frame' = [frame EXCEPT !.source = Head(frame.parents),
                              !.parents = Tail(frame.parents),
                              !.i = 0]
    /\ UNCHANGED <<cu, res>>

\* range(r) is used up
TreeForEnd ==
    /\ pc = "for"
    /\ frame.i >= frame.args.r
    /\ pc' = "while"
    /\ UNCHANGED <<cu, res, frame>>

\* TreeYield putting the target at the head of parents
TreeYieldFront ==
    /\ pc = "for"
    /\ frame.i < frame.args.r
    /\ frame.nxt < frame.args.n
    /\ frame' = [frame EXCEPT !.parents = <<frame.nxt>> \o @,
                              !.nxt = @ + 1,
                              !.i = @ + 1,
                              !.G = add_edge(@, frame.source, frame.nxt)]
    /\ cu' = Shared(frame'.G)
    /\ UNCHANGED <<res, pc>>

\* target = next(nodes); parents.append(target); yield source, target, which
\* add_edges_from adds to G
TreeYield ==
    /\ pc = "for"
    /\ frame.i < frame.args.r
    /\ frame.nxt < frame.args.n
    /\ frame' = [frame EXCEPT !.parents = Append(@, frame.nxt),
                              !.nxt = @ + 1,
                              !.i = @ + 1,
                              !.G = add_edge(@, frame.source, frame.nxt)]
    /\ cu' = Shared(frame'.G)
    /\ UNCHANGED <<res, pc>>

\* next(nodes) raises StopIteration: break
TreeBreak ==
    /\ pc = "for"
    /\ frame.i < frame.args.r
    /\ frame.nxt >= frame.args.n
    /\ pc' = "while"
    /\ UNCHANGED <<cu, res, frame>>

\* a step of the running call
TreeStep ==
    \/ TreeWhileExit
    \/ TreePop
    \/ TreeForEnd
    \/ TreeYield
    \/ TreeBreak

NextTree ==
    \/ NewContainer
    \/ DropContainer
    \/ Continue
    \/ StartFullRaryTree
    \/ TreeStep

\* the interpreter keeps running a call that has a step to take
SpecTree == Init /\ [][NextTree]_vars /\ WF_vars(TreeStep)

(***************************************************************************)
(* Properties.                                                             *)
(***************************************************************************)
Done(op) == pc = "done" /\ res.op = op

Returned(op) == Done(op) /\ res.raised = "none"

\* G is a simple undirected graph: one edge per pair, stored both ways, no loop
IsSimple(G) ==
    /\ ~G.directed
    /\ ~G.multi
    /\ \A e \in DOMAIN G.adj :
          /\ e[1] # e[2]
          /\ G.adj[e] = 1
          /\ <<e[2], e[1]>> \in DOMAIN G.adj
          /\ e[1] \in G.nodes

BlockOf(G, b) == {v \in G.nodes : G.block[v] = b}

\* G is complete multipartite over its 'block' attribute
IsCompleteMultipartite(G) ==
    /\ IsSimple(G)
    /\ DOMAIN G.block = G.nodes
    /\ \A u \in G.nodes, v \in G.nodes :
          adjacent(G, u, v) <=> G.block[u] # G.block[v]

\* G has r blocks, n % r of size n \div r + 1 and the others of size n \div r
TuranShape(G, n, r) ==
    /\ G.nodes = 0..(n - 1)
    /\ IsCompleteMultipartite(G)
    /\ \A v \in G.nodes : G.block[v] \in 0..(r - 1)
    /\ \A b \in 0..(r - 1) :
          Cardinality(BlockOf(G, b)) \in {n \div r, (n \div r) + 1}
    /\ Cardinality({b \in 0..(r - 1) :
          Cardinality(BlockOf(G, b)) = (n \div r) + 1}) = n % r

Sizes == [k \in 1..Len(res.args.block_sizes) |-> res.args.block_sizes[k].val]

\* the number of nodes in the first k blocks
SizesUpTo(k) == SumOver(Sizes, 1..k)

\* C4: for non-negative integer block sizes, complete_multipartite_graph
\* returns a simple undirected graph on the nodes 0..(sum of sizes)-1, each
\* node's 'block' is the index of the consecutive block holding it, two nodes
\* are adjacent iff their blocks differ, the number of edges is the sum of
\* s_i*s_j over i < j, no argument gives the null graph and one argument an
\* edgeless graph.
C4_CompleteMultipartite ==
    (/\ Done("complete_multipartite_graph")
     /\ \A k \in 1..Len(res.args.block_sizes) : isint(res.args.block_sizes[k]))
    => LET nb == Len(Sizes)
           pairs == {p \in (1..nb) \X (1..nb) : p[1] < p[2]}
           G == res.G
       IN  /\ res.raised = "none"
           /\ G.nodes = 0..(SizesUpTo(nb) - 1)
           /\ IsCompleteMultipartite(G)
           /\ \A v \in G.nodes :
                 /\ G.block[v] \in 0..(nb - 1)
                 /\ SizesUpTo(G.block[v]) <= v
                 /\ v < SizesUpTo(G.block[v] + 1)
           /\ number_of_edges(G)
                = SumOver([p \in pairs |-> Sizes[p[1]] * Sizes[p[2]]], pairs)
           /\ (nb = 0) => G.nodes = {}
           /\ (nb <= 1) => DOMAIN G.adj = {}

\* complete_multipartite_graph(1, 2, 3) has returned its 11 edges
C4_Witness ==
    /\ Returned("complete_multipartite_graph")
    /\ res.args.block_sizes = <<Count(1), Count(2), Count(3)>>
    /\ number_of_edges(res.G) = 11
    /\ [v \in 0..5 |-> res.G.block[v]] = [v \in 0..5 |-> IF v = 0 THEN 0 ELSE IF v < 3 THEN 1 ELSE 2]

\* the identifiers a NodeSpec resolves to
Resolved(x) == IF isint(x) THEN 0..(x.val - 1) ELSE SeqSet(x.val)

\* C5: empty_graph(n, create_using=G) returns the instance G itself, its
\* directed/multigraph variant unchanged, with exactly the nodes resolved from
\* n and no edge, whatever G held before; with no create_using it returns a
\* fresh simple undirected graph with those nodes and no edge.
C5_EmptyGraph ==
    Done("empty_graph")
    => /\ res.raised = "none"
       /\ res.G.nodes = Resolved(res.args.n)
       /\ DOMAIN res.G.adj = {}
       /\ DOMAIN res.G.block = {}
       /\ IF IsNone(res.pre)
          THEN /\ res.G.id # CallerId
               /\ ~res.G.directed
               /\ ~res.G.multi
               /\ IsNone(cu)
          ELSE /\ res.G.id = res.pre.id
               /\ res.G.directed = res.pre.directed
               /\ res.G.multi = res.pre.multi
               /\ cu = res.G

\* empty_graph has refilled a directed container that held other nodes and edges
C5_Witness ==
    /\ Returned("empty_graph")
    /\ ~IsNone(res.pre)
    /\ res.pre.directed
    /\ DOMAIN res.pre.adj # {}
    /\ res.pre.nodes \ res.G.nodes # {}
    /\ res.G.nodes # {}

\* the generators defined for simple undirected graphs only
UndirectedOnly ==
    {"star_graph", "wheel_graph", "ladder_graph", "circular_ladder_graph",
     "barbell_graph", "lollipop_graph", "dorogovtsev_goltsev_mendes_graph"}

\* C2: when one of the undirected-only generators raises, the container
\* passed as create_using still has the nodes and edges it had before the call.
C2_NoPartialConstruction ==
    (/\ pc = "done"
     /\ res.op \in UndirectedOnly
     /\ res.raised # "none"
     /\ ~IsNone(res.pre))
    => cu = res.pre

\* the arguments of the call are valid for its generator
ValidArgs ==
    CASE res.op = "barbell_graph" -> res.args.m1 >= 2 /\ res.args.m2 >= 0
      [] res.op = "lollipop_graph" ->
            Cardinality(Resolved(res.args.m)) >= 2
      [] res.op \in {"star_graph", "wheel_graph"} ->
            isint(res.args.n) \/ Len(res.args.n.val) > 0
      [] OTHER -> TRUE

\* C3: every undirected-only generator raises when create_using is directed,
\* for every valid argument, a node count of 0 included.
C3_DirectedRaises ==
    (/\ pc = "done"
     /\ res.op \in UndirectedOnly
     /\ ~IsNone(res.pre)
     /\ res.pre.directed
     /\ ValidArgs)
    => res.raised # "none"

\* C6: a generator called with integer arguments returns a graph whose node
\* set is exactly the canonical one: 0..n-1 for complete_graph, path_graph,
\* circulant_graph and full_rary_tree, 0..2n-1 for ladder_graph and
\* circular_ladder_graph, 0..2*m1+m2-1 for barbell_graph.
C6_CanonicalNodes ==
    (pc = "done" /\ res.raised = "none")
    => /\ (res.op \in {"complete_graph", "path_graph"} /\ isint(res.args.n))
            => res.G.nodes = 0..(res.args.n.val - 1)
       /\ (res.op \in {"circulant_graph", "full_rary_tree"})
            => res.G.nodes = 0..(res.args.n - 1)
       /\ (res.op \in {"ladder_graph", "circular_ladder_graph"})
            => res.G.nodes = 0..(2 * res.args.n - 1)
       /\ (res.op = "barbell_graph")
            => res.G.nodes = 0..(2 * res.args.m1 + res.args.m2 - 1)

\* C10: called with a node count n >= 0 and the default container, cycle_graph,
\* path_graph, complete_graph, star_graph, wheel_graph, ladder_graph,
\* circular_ladder_graph, circulant_graph and full_rary_tree return a graph
\* and raise nothing.
C10_Total ==
    (/\ pc = "done"
     /\ IsNone(res.pre)
     /\ \/ /\ res.op \in {"cycle_graph", "path_graph", "complete_graph",
                          "star_graph", "wheel_graph"}
           /\ isint(res.args.n)
        \/ res.op \in {"ladder_graph", "circular_ladder_graph",
                       "circulant_graph", "full_rary_tree"})
    => res.raised = "none"

\* the node list a star_graph call was given: 0..n for an integer n
StarNodes ==
    IF isint(res.args.n) THEN Range(0, res.args.n.val + 1) ELSE res.args.n.val

\* G is a star on the nodes of s with center c: c is joined to every other
\* node and nothing else is
IsStar(G, s, c) ==
    /\ G.nodes = SeqSet(s)
    /\ number_of_edges(G) = Len(s) - 1
    /\ degree(G, c) = Len(s) - 1
    /\ \A v \in G.nodes \ {c} : adjacent(G, c, v) /\ degree(G, v) = 1

\* the star_graph calls C7 is about: an integer n >= 1 or a node list
StarCase ==
    /\ Done("star_graph")
    /\ IsNone(res.pre) \/ ~res.pre.directed
    /\ IF isint(res.args.n) THEN res.args.n.val >= 1
       ELSE Len(res.args.n.val) >= 1

\* C7 as stated: star_graph(n), n >= 1, has the nodes 0..n and n edges and
\* its center is node n, the one appended last; the center of a star on a
\* node list is the first node of the list.
C7_AsStated ==
    StarCase
    => /\ res.raised = "none"
       /\ IsStar(res.G, StarNodes,
                 IF isint(res.args.n) THEN res.args.n.val ELSE StarNodes[1])

\* C7 amended: star_graph(n), n >= 1, has the nodes 0..n and n edges and its
\* center is node 0, the first node of 0..n (node n, appended last, is a
\* leaf); the center of a star on a node list is the first node of the list.
C7_StarCenter ==
    StarCase
    => /\ res.raised = "none"
       /\ IsStar(res.G, StarNodes, StarNodes[1])
       /\ isint(res.args.n)
            => /\ res.G.nodes = 0..res.args.n.val
               /\ number_of_edges(res.G) = res.args.n.val
               /\ degree(res.G, 0) = res.args.n.val
               /\ degree(res.G, res.args.n.val) = 1

\* star_graph(3) has returned on the default container: node 3 is a leaf
C7_Witness ==
    /\ Returned("star_graph")
    /\ IsNone(res.pre)
    /\ res.args.n = Count(3)
    /\ degree(res.G, 0) = 3
    /\ degree(res.G, 3) = 1

\* the degrees of grid_2d_graph(m, n) without wrap-around: 2 at the corners,
\* 3 on the rest of the boundary, 4 inside
GridDegrees(G, m, n) ==
    \A i \in 0..(m - 1), j \in 0..(n - 1) :
        LET onRow == i \in {0, m - 1}
            onCol == j \in {0, n - 1}
        IN  degree(G, <<i, j>>) =
               IF onRow /\ onCol THEN 2 ELSE IF onRow \/ onCol THEN 3 ELSE 4

\* the grid_2d_graph calls C8 is about: integer m and n, default container
GridCase ==
    /\ Done("grid_2d_graph")
    /\ IsNone(res.pre)
    /\ isint(res.args.m)
    /\ isint(res.args.n)

\* C8 as stated: grid_2d_graph(m, n) has the m*n nodes (i, j); without
\* periodic its corners have degree 2, the other boundary nodes 3 and the
\* interior nodes 4; with periodic and m, n > 2 every node has degree 4.
C8_AsStated ==
    GridCase
    => LET m == res.args.m.val
           n == res.args.n.val
       IN  /\ res.raised = "none"
           /\ res.G.nodes = (0..(m - 1)) \X (0..(n - 1))
           /\ Cardinality(res.G.nodes) = m * n
           /\ ~res.args.periodic => GridDegrees(res.G, m, n)
           /\ (res.args.periodic /\ m > 2 /\ n > 2)
                => \A v \in res.G.nodes : degree(res.G, v) = 4

\* C8 amended: grid_2d_graph(m, n) has the m*n nodes (i, j); without periodic
\* and with m, n >= 2 its corners have degree 2, the other boundary nodes 3
\* and the interior nodes 4; with periodic and m, n > 2 every node has
\* degree 4.
C8_GridDegrees ==
    GridCase
    => LET m == res.args.m.val
           n == res.args.n.val
       IN  /\ res.raised = "none"
           /\ IsSimple(res.G)
           /\ res.G.nodes = (0..(m - 1)) \X (0..(n - 1))
           /\ Cardinality(res.G.nodes) = m * n
           /\ (~res.args.periodic /\ m >= 2 /\ n >= 2)
                => GridDegrees(res.G, m, n)
           /\ (res.args.periodic /\ m > 2 /\ n > 2)
                => \A v \in res.G.nodes : degree(res.G, v) = 4

\* grid_2d_graph(2, 3) has returned: a corner, a boundary node
C8_Witness ==
    /\ Returned("grid_2d_graph")
    /\ IsNone(res.pre)
    /\ ~res.args.periodic
    /\ res.args.m = Count(2)
    /\ res.args.n = Count(3)
    /\ degree(res.G, <<0, 0>>) = 2
    /\ degree(res.G, <<0, 1>>) = 3

\* the edges of the barbell graph: the two bells, the path and the two bridges
BarbellEdge(u, v, m1, m2) ==
    LET a == Min(u, v)
        b == Max(u, v)
    IN  /\ a # b
        /\ \/ b < m1
           \/ a >= m1 + m2
           \/ a >= m1 /\ b < m1 + m2 /\ b = a + 1
           \/ a = m1 - 1 /\ b = m1
           \/ a = m1 + m2 - 1 /\ b = m1 + m2

\* C9: for m1 >= 2 and m2 >= 0, barbell_graph(m1, m2) has 2*m1+m2 nodes and
\* m1*(m1-1)+m2+1 edges: two K_m1 on 0..m1-1 and m1+m2..2*m1+m2-1, a path on
\* m1..m1+m2-1, joined only by (m1-1, m1) and (m1+m2-1, m1+m2); it raises
\* when m1 < 2 or m2 < 0.
C9_Barbell ==
    Done("barbell_graph")
    => LET m1 == res.args.m1
           m2 == res.args.m2
           G == res.G
       IN  IF m1 < 2 \/ m2 < 0 THEN res.raised # "none"
           ELSE (IsNone(res.pre) \/ ~res.pre.directed)
                => /\ res.raised = "none"
                   /\ G.nodes = 0..(2 * m1 + m2 - 1)
                   /\ Cardinality(G.nodes) = 2 * m1 + m2
                   /\ number_of_edges(G) = m1 * (m1 - 1) + m2 + 1
                   /\ \A u \in G.nodes, v \in G.nodes :
                         adjacent(G, u, v) <=> BarbellEdge(u, v, m1, m2)
                   /\ \A e \in DOMAIN G.adj : G.adj[e] = 1

\* barbell_graph(3, 0) has returned: two triangles and one bridge, 7 edges
C9_Witness ==
    /\ Returned("barbell_graph")
    /\ res.args.m1 = 3
    /\ res.args.m2 = 0
    /\ number_of_edges(res.G) = 7
    /\ adjacent(res.G, 2, 3)

(***************************************************************************)
(* circulant_graph against cycle_graph.                                    *)
(***************************************************************************)
\* create_using is None or nx.Graph(): the result is simple and undirected
SimpleUndirected(c) == IsNone(c) \/ (~c.directed /\ ~c.multi)

\* the pairs the offsets join among 0..n-1
CirculantPairs(n, offsets) ==
    {e \in (0..(n - 1)) \X (0..(n - 1)) :
        \E k \in 1..Len(offsets) :
            \/ e[2] = (e[1] - offsets[k]) % n
            \/ e[2] = (e[1] + offsets[k]) % n}

\* C11: on a simple undirected container circulant_graph(n, offsets) has the
\* nodes 0..n-1 and joins node i to (i-x) mod n and (i+x) mod n for each
\* offset x and to no other node; for n >= 1, circulant_graph(n, [1]) has
\* the node set and the edge set of cycle_graph(n)
C11_Circulant ==
    Returned("circulant_graph") /\ SimpleUndirected(res.pre) =>
        LET n == res.args.n
            offsets == res.args.offsets
            C == cycle_graph(Count(n), res.pre)
        IN  /\ ~res.G.directed /\ ~res.G.multi
            /\ res.G.nodes = 0..(n - 1)
            /\ DOMAIN res.G.adj = CirculantPairs(n, offsets)
            /\ \A e \in DOMAIN res.G.adj : res.G.adj[e] = 1
            /\ (n >= 1 /\ offsets = <<1>>) =>
                   /\ C.raised = "none"
                   /\ res.G.nodes = C.G.nodes
                   /\ res.G.adj = C.G.adj

\* circulant_graph(3, [1]) on the default container returned a triangle
C11_Witness ==
    /\ Returned("circulant_graph")
    /\ IsNone(res.pre)
    /\ res.args.n = 3
    /\ res.args.offsets = <<1>>
    /\ number_of_edges(res.G) = 3
    /\ adjacent(res.G, 0, 2)

(***************************************************************************)
(* complete_graph.                                                         *)
(***************************************************************************)
\* C12: complete_graph(n) for an integer n >= 0 returns n nodes with every
\* pair of distinct nodes joined once and no self-loop: n*(n-1)/2 edges on an
\* undirected container, n*(n-1) edges, both orientations of every pair, on
\* a directed one, and no edge when n <= 1
C12_CompleteGraph ==
    Done("complete_graph") /\ isint(res.args.n) =>
        LET n == res.args.n.val
        IN  /\ res.raised = "none"
            /\ res.G.nodes = 0..(n - 1)
            /\ len(res.G) = n
            /\ Loops(res.G) = {}
            /\ DOMAIN res.G.adj =
                  {e \in res.G.nodes \X res.G.nodes : e[1] # e[2]}
            /\ \A e \in DOMAIN res.G.adj : res.G.adj[e] = 1
            /\ number_of_edges(res.G) =
                  IF res.G.directed THEN n * (n - 1) ELSE (n * (n - 1)) \div 2
            /\ (n <= 1) => number_of_edges(res.G) = 0
            /\ res.G.directed = (~IsNone(res.pre) /\ res.pre.directed)

\* complete_graph(3, nx.DiGraph()) returned six directed edges
C12_Witness ==
    /\ Returned("complete_graph")
    /\ isint(res.args.n)
    /\ res.args.n.val = 3
    /\ res.G.directed
    /\ ~res.G.multi
    /\ number_of_edges(res.G) = 6

(***************************************************************************)
(* lollipop_graph.                                                         *)
(***************************************************************************)
\* the nodes of the claim's path: n's own identifiers when n is a container,
\* M..M+N-1 when m and n are integers, and else the nodes that are not m's
StickNodes ==
    IF ~isint(res.args.n) THEN SeqSet(res.args.n.val)
    ELSE IF isint(res.args.m)
    THEN LET M == res.args.m.val
         IN  M..(M + res.args.n.val - 1)
    ELSE res.G.nodes \ Resolved(res.args.m)

\* C13: for m resolving to M >= 2 nodes and n resolving to N >= 0 nodes, in
\* any combination of integer and node container, lollipop_graph(m, n) is a
\* complete graph on the M nodes of m joined by exactly one edge, from the
\* last node of m to the first node of n, to a path on N further nodes that
\* are not nodes of m; it has M+N nodes and M*(M-1)/2+N edges, the path nodes
\* being M..M+N-1 for integers; it raises when M < 2
C13_Lollipop ==
    Done("lollipop_graph") /\ (IsNone(res.pre) \/ ~res.pre.directed) =>
        LET m_nodes == nodes_or_number(res.args.m)[2]
            M == Len(m_nodes)
            N == Len(nodes_or_number(res.args.n)[2])
            G == res.G
            ball == SeqSet(m_nodes)
            stick == StickNodes
            joins == {e \in DOMAIN G.adj : e[1] \in ball /\ e[2] \in stick}
        IN  IF M < 2 THEN res.raised # "none"
            ELSE /\ res.raised = "none"
                 /\ len(G) = M + N
                 /\ number_of_edges(G) = ((M * (M - 1)) \div 2) + N
                 /\ G.nodes = ball \cup stick
                 /\ ball \cap stick = {}
                 /\ Cardinality(stick) = N
                 /\ \A u, v \in ball : u # v => adjacent(G, u, v)
                 /\ Cardinality(joins) = (IF N > 0 THEN 1 ELSE 0)
                 /\ \A e \in joins : e[1] = m_nodes[M]
                 /\ ~isint(res.args.n) =>
                       /\ \A e \in joins : e[2] = res.args.n.val[1]
                       /\ \A k \in 1..(N - 1) :
                             adjacent(G, res.args.n.val[k],
                                         res.args.n.val[k + 1])
                 /\ \A v \in stick :
                       Cardinality({e \in DOMAIN G.adj : e[1] = v}) <= 2

(***************************************************************************)
(* full_rary_tree.                                                         *)
(***************************************************************************)
\* the parent the claim gives node i of an r-ary tree
Parent(i, r) == (i - 1) \div r

\* the adjacency of the tree on the nodes below k
TreePairs(r, k, directed) ==
    {<<Parent(t, r), t>> : t \in 1..(k - 1)}
    \cup (IF directed THEN {} ELSE {<<t, Parent(t, r)>> : t \in 1..(k - 1)})

Running == pc \in {"while", "for"}

\* while the loop runs, the nodes below nxt have their edge to their parent
\* and no other edge exists, the queue holds nodes below nxt in increasing
\* order; the returned graph of a call with n >= 1 has nodes 0..n-1 and, for
\* r >= 1, exactly the edges (floor((i-1)/r), i), 1 <= i < n
C14_TreeShape ==
    /\ Running =>
          LET r == frame.args.r
              G == frame.G
          IN  /\ frame.args.n >= 1
              /\ frame.nxt \in 1..frame.args.n
              /\ G.nodes = 0..(frame.args.n - 1)
              /\ DOMAIN G.adj = TreePairs(r, frame.nxt, G.directed)
              /\ \A e \in DOMAIN G.adj : G.adj[e] = 1
              /\ \A k \in 1..Len(frame.parents) :
                    /\ frame.parents[k] < frame.nxt
                    /\ k > 1 => frame.parents[k - 1] < frame.parents[k]
              /\ pc = "for" =>
                    \A k \in 1..Len(frame.parents) :
                        frame.source < frame.parents[k]
    /\ Done("full_rary_tree") /\ res.args.n >= 1 =>
          LET r == res.args.r
              n == res.args.n
              G == res.G
          IN  /\ res.raised = "none"
              /\ G.nodes = 0..(n - 1)
              /\ \A e \in DOMAIN G.adj : G.adj[e] = 1
              /\ IF r = 0 THEN DOMAIN G.adj = {}
                 ELSE /\ DOMAIN G.adj = TreePairs(r, n, G.directed)
                      /\ number_of_edges(G) = n - 1
                      /\ \A v \in G.nodes :
                            Cardinality({t \in G.nodes :
                                t > v /\ adjacent(G, v, t)}) <= r

\* the loop of a running call ends and the call is over
C14_Terminates == Running ~> (pc = "done")

\* C14: for r >= 1 and n >= 1 full_rary_tree(r, n) gives node i, 1 <= i < n,
\* the parent floor((i-1)/r) and has no other edge, so n-1 edges and at most
\* r children per node, the children taken in increasing order, parents
\* first; for r = 0 it has n isolated nodes; the loop terminates
C14_FullRaryTree == []C14_TreeShape /\ C14_Terminates

\* full_rary_tree(2, 5) returned: 0 has the children 1 and 2, 1 has 3 and 4
C14_Witness ==
    /\ Returned("full_rary_tree")
    /\ res.args = [r |-> 2, n |-> 5]
    /\ number_of_edges(res.G) = 4
    /\ adjacent(res.G, 1, 3)
    /\ adjacent(res.G, 1, 4)
    /\ ~adjacent(res.G, 2, 3)

(***************************************************************************)
(* dorogovtsev_goltsev_mendes_graph.                                       *)
(***************************************************************************)
Neighbours(G, v) == {e[2] : e \in {d \in DOMAIN G.adj : d[1] = v}}

\* G is P after one generation: P's nodes and edges are kept, and every edge
\* of P has exactly one new node, joined to its two endpoints and to nothing
\* else
NextGeneration(P, G) ==
    LET new == G.nodes \ P.nodes
    IN  /\ P.nodes \subseteq G.nodes
        /\ {e \in DOMAIN G.adj : e[1] \in P.nodes /\ e[2] \in P.nodes}
              = DOMAIN P.adj
        /\ \A v \in new :
              \E e \in DOMAIN P.adj : Neighbours(G, v) = {e[1], e[2]}
        /\ \A e \in DOMAIN P.adj :
              Cardinality({v \in new : Neighbours(G, v) = {e[1], e[2]}}) = 1

\* C15: dorogovtsev_goltsev_mendes_graph(0) is the single edge (0,1);
\* generation n adds, for every edge of generation n-1, exactly one new node
\* joined to exactly the two endpoints of that edge; the result has 3^n
\* edges and (3^n+3)/2 nodes, labelled 0..(3^n+1)/2
C15_Dgm ==
    Returned("dorogovtsev_goltsev_mendes_graph") =>
        LET n == res.args.n
            G == res.G
        IN  /\ IsSimple(G)
            /\ number_of_edges(G) = 3 ^ n
            /\ len(G) = (3 ^ n + 3) \div 2
            /\ G.nodes = 0..((3 ^ n + 1) \div 2)
            /\ n = 0 => DOMAIN G.adj = {<<0, 1>>, <<1, 0>>}
            /\ n >= 1 =>
                  NextGeneration(
                      dorogovtsev_goltsev_mendes_graph(n - 1, res.pre).G, G)

\* the second generation returned: nine edges on six nodes, the last node
\* joined to two nodes
C15_Witness ==
    /\ Returned("dorogovtsev_goltsev_mendes_graph")
    /\ res.args.n = 2
    /\ number_of_edges(res.G) = 9
    /\ res.G.nodes = 0..5
    /\ Cardinality(Neighbours(res.G, 5)) = 2

=============================================================================
